---- MODULE Spec2Model ----
(***************************************************************************)
(* Process-tree state-space search: operational semantics of process      *)
(* trees (semantics.py), tree states (tree_state.py), the mirror tree     *)
(* (tree_utils.py) and the bidirectional Dijkstra search (search.py).     *)
(*                                                                         *)
(* A node is identified by its position.  The source numbers positions    *)
(* from 0; sequences here are 1-based, so position p of the source is     *)
(* index p + 1 and the root is node 1.  parent = 0 stands for "no parent".*)
(***************************************************************************)
EXTENDS Integers, Sequences, FiniteSets, TLC

(***************************************************************************)
(* Bounds of the model.                                                    *)
(***************************************************************************)
MaxNodes == 5
MaxParallelNodes == 3
MaxInversions == 2
MaxToggleNodes == 4

None == "None"

(***************************************************************************)
(* node_state.py                                                           *)
(***************************************************************************)
NodeState == {"Open", "Closed", "Future"}

invert_node_state(node_state) ==
    IF node_state = "Closed" THEN "Future"
    ELSE IF node_state = "Future" THEN "Closed"
    ELSE "Open"

ValueError == "ValueError"

\* state.value[0]: the first character of the value of the enum member
value_first_char(node_state) ==
    IF node_state = "Open" THEN "O"
    ELSE IF node_state = "Closed" THEN "C"
    ELSE "F"

\* ValueError stands for the raise of the default case
char_to_node_state(node_state_char) ==
    IF node_state_char = "c" THEN "Closed"
    ELSE IF node_state_char = "f" THEN "Future"
    ELSE IF node_state_char = "o" THEN "Open"
    ELSE ValueError

(***************************************************************************)
(* objects/process_tree.py, tree_utils.py                                  *)
(***************************************************************************)
Operator == {"->", "X", "+", "*", "<-"}

Letters == <<"a", "b", "c", "d", "e", "f", "g", "h">>

RECURSIVE SortedSeq(_)
SortedSeq(S) ==
    IF S = {} THEN <<>>
    ELSE LET m == CHOOSE x \in S : \A y \in S : x <= y
         IN <<m>> \o SortedSeq(S \ {m})

RECURSIVE AncestorsOrSelf(_, _)
AncestorsOrSelf(par, i) ==
    IF i = 0 THEN {} ELSE {i} \cup AncestorsOrSelf(par, par[i])

\* parent vectors of the ordered trees with n nodes numbered in pre-order
\* (parse_tree_string assigns positions in pre-order)
ParentVectors(n) ==
    {par \in [1..n -> 0..(n - 1)] :
        /\ par[1] = 0
        /\ \A i \in 2..n : par[i] \in 1..(i - 1)
        /\ \A i \in 2..n : par[i] \in AncestorsOrSelf(par, i - 1)}

ChildSet(par, i) == {j \in DOMAIN par : par[j] = i}

\* a ProcessTree: operator, label, parent and children of every position
MakeTree(par, ops) ==
    LET n == Len(par)
        leaves == {i \in 1..n : ChildSet(par, i) = {}}
    IN [operator |-> [i \in 1..n |-> IF i \in leaves THEN None ELSE ops[i]],
        label    |-> [i \in 1..n |->
                        IF i \in leaves
                        THEN Letters[Cardinality({j \in leaves : j <= i})]
                        ELSE None],
        parent   |-> par,
        children |-> [i \in 1..n |-> SortedSeq(ChildSet(par, i))]]

Nodes(pt) == DOMAIN pt.parent

Inner(pt) == {i \in Nodes(pt) : Len(pt.children[i]) > 0}

\* operators with >= 2 children, Loop with exactly 2
WellFormed(pt) ==
    \A i \in Inner(pt) :
        /\ Len(pt.children[i]) >= 2
        /\ pt.operator[i] = "*" => Len(pt.children[i]) = 2

\* the trees the parser can build with at most MaxNodes nodes: the well-formed
\* ones and those whose only defect is a Loop with three children
TreesOfShape(par) ==
    LET inner == {i \in DOMAIN par : ChildSet(par, i) # {}}
    IN {MakeTree(par, ops) : ops \in
          {o \in [inner -> Operator] :
              \A i \in inner :
                  o[i] = "*" => Cardinality(ChildSet(par, i)) \in {2, 3}}}

Shapes ==
    UNION {{par \in ParentVectors(n) :
                \A i \in 1..n : Cardinality(ChildSet(par, i)) # 1} : n \in 1..MaxNodes}

Trees == UNION {TreesOfShape(par) : par \in Shapes}

SubtreeSize(pt, i) ==
    Cardinality({j \in Nodes(pt) : i \in AncestorsOrSelf(pt.parent, j)})

\* the trees the search is run on: the interleavings of a Parallel node
\* multiply the orders in which the heaps can be emptied, so its subtree is
\* kept to MaxParallelNodes nodes
SearchTrees ==
    {pt \in Trees :
        \A i \in Inner(pt) :
            pt.operator[i] = "+" => SubtreeSize(pt, i) <= MaxParallelNodes}

is_sequence(pt, tree) == tree # 0 /\ pt.operator[tree] = "->"
is_reverse_sequence(pt, tree) == tree # 0 /\ pt.operator[tree] = "<-"
is_parallel(pt, tree) == tree # 0 /\ pt.operator[tree] = "+"
is_xor(pt, tree) == tree # 0 /\ pt.operator[tree] = "X"
is_loop(pt, tree) == tree # 0 /\ pt.operator[tree] = "*"
is_root(pt, tree) == pt.parent[tree] = 0
\* is_leaf with the test of the operator turned around
is_leaf_operator_set(pt, tree) ==
    Len(pt.children[tree]) = 0 /\ pt.operator[tree] # None

is_leaf(pt, tree) == Len(pt.children[tree]) = 0 /\ pt.operator[tree] = None

is_do_child(pt, tree) ==
    /\ pt.parent[tree] # 0
    /\ is_loop(pt, pt.parent[tree])
    /\ pt.children[pt.parent[tree]][1] = tree

is_redo_child(pt, tree) ==
    /\ pt.parent[tree] # 0
    /\ is_loop(pt, pt.parent[tree])
    /\ pt.children[pt.parent[tree]][2] = tree

get_nodes_as_set(pt) == Nodes(pt)

\* get_reverse_tree with the second test reading the operator already swapped
get_reverse_tree_chained(pt) ==
    [pt EXCEPT !.operator =
        [i \in Nodes(pt) |->
            IF pt.operator[i] \in {"->", "<-"} THEN "->" ELSE pt.operator[i]]]

\* every node is built anew with the operator swapped, the label and the
\* position of the node it mirrors; the mirrored children are appended in
\* order and each is given the new node as its parent
get_reverse_tree(pt) ==
    LET operator(i) ==
            IF pt.operator[i] = "->" THEN "<-"
            ELSE IF pt.operator[i] = "<-" THEN "->"
            ELSE pt.operator[i]
        appended_to(j) ==
            {i \in Nodes(pt) :
                \E k \in DOMAIN pt.children[i] : pt.children[i][k] = j}
    IN [operator |-> [i \in Nodes(pt) |-> operator(i)],
        label    |-> [i \in Nodes(pt) |-> pt.label[i]],
        parent   |-> [j \in Nodes(pt) |->
                        IF appended_to(j) = {} THEN 0
                        ELSE CHOOSE i \in appended_to(j) : TRUE],
        children |-> [i \in Nodes(pt) |->
                        [k \in DOMAIN pt.children[i] |-> pt.children[i][k]]]]

(***************************************************************************)
(* tree_state.py: a TupleTreeState is the tuple of node states             *)
(***************************************************************************)
get_state(state, node) == state[node]

update(state, node, node_state) == [state EXCEPT ![node] = node_state]

\* invert that turns Closed into Future and leaves Future as it is
invert_closed_cells_only(state) ==
    [i \in DOMAIN state |->
        IF state[i] = "Closed" THEN "Future" ELSE state[i]]

\* TupleTreeState.invert spells the involution out cell by cell
invert(state) ==
    [i \in DOMAIN state |->
        IF state[i] = "Open" THEN "Open"
        ELSE IF state[i] = "Closed" THEN "Future" ELSE "Closed"]

get_initial_state(pt) == [i \in 1..Cardinality(get_nodes_as_set(pt)) |-> "Future"]

is_future(state, node) == get_state(state, node) = "Future"
is_open(state, node) == get_state(state, node) = "Open"
is_closed(state, node) == get_state(state, node) = "Closed"

RECURSIVE all_descendants_in_state(_, _, _, _)
all_descendants_in_state(pt, state, tree, node_state) ==
    /\ get_state(state, tree) = node_state
    /\ \A i \in DOMAIN pt.children[tree] :
          all_descendants_in_state(pt, state, pt.children[tree][i], node_state)

all_descendants_future(pt, state, tree) ==
    all_descendants_in_state(pt, state, tree, "Future")

all_descendants_closed(pt, state, tree) ==
    all_descendants_in_state(pt, state, tree, "Closed")

\* TupleTreeState.__repr__: a string is the sequence of its characters
repr(state) == [i \in DOMAIN state |-> value_first_char(state[i])]

\* TupleTreeState.from_string: the exception of the first character that
\* char_to_node_state rejects leaves the call, and no tree state is built
from_string(state_string) ==
    IF \E i \in DOMAIN state_string :
          char_to_node_state(state_string[i]) = ValueError
    THEN [raised |-> ValueError, state_list |-> <<>>]
    ELSE [raised |-> None,
          state_list |-> [i \in DOMAIN state_string |->
                             char_to_node_state(state_string[i])]]

(***************************************************************************)
(* semantics.py: Transition                                                *)
(***************************************************************************)
Transition(node, from_state, to_state) ==
    [node |-> node, from_state |-> from_state, to_state |-> to_state]

future_to_open(node) == Transition(node, "Future", "Open")
future_to_closed(node) == Transition(node, "Future", "Closed")
open_to_closed(node) == Transition(node, "Open", "Closed")
closed_to_future(node) == Transition(node, "Closed", "Future")

is_open_to_closed(t) == t.from_state = "Open" /\ t.to_state = "Closed"
is_future_to_open(t) == t.from_state = "Future" /\ t.to_state = "Open"
is_future_to_closed(t) == t.from_state = "Future" /\ t.to_state = "Closed"
is_closed_to_future(t) == t.from_state = "Closed" /\ t.to_state = "Future"

\* invert that swaps the endpoints without inverting them
transition_invert_swap_only(t) ==
    [node |-> t.node, from_state |-> t.to_state, to_state |-> t.from_state]

transition_invert(t) ==
    [node       |-> t.node,
     from_state |-> invert_node_state(t.to_state),
     to_state   |-> invert_node_state(t.from_state)]

(***************************************************************************)
(* semantics.py: ProcessTreeSemanticsInvertible                            *)
(***************************************************************************)
\* index of tree among the children of its parent
ChildIndex(pt, tree) ==
    CHOOSE i \in DOMAIN pt.children[pt.parent[tree]] :
        pt.children[pt.parent[tree]][i] = tree

closed_to_future_sibling_conditions(pt, state, tree) ==
    IF is_do_child(pt, tree)
    THEN is_open(state, pt.children[pt.parent[tree]][2])
    ELSE IF is_redo_child(pt, tree)
    THEN ~is_open(state, pt.children[pt.parent[tree]][1])
    ELSE FALSE

\* the skip without the clause for the alternatives of a Xor
future_to_closed_sibling_conditions_redo_only(pt, state, tree) ==
    /\ is_redo_child(pt, tree)
    /\ is_open(state, pt.children[pt.parent[tree]][1])

\* the skip without the clause for the redo child of a Loop
future_to_closed_sibling_conditions_xor_only(pt, state, tree) ==
    /\ is_xor(pt, pt.parent[tree])
    /\ \E i \in DOMAIN pt.children[pt.parent[tree]] :
          /\ pt.children[pt.parent[tree]][i] # tree
          /\ is_open(state, pt.children[pt.parent[tree]][i])

future_to_closed_sibling_conditions(pt, state, tree) ==
    LET sibs == pt.children[pt.parent[tree]]
        idx == ChildIndex(pt, tree)
    IN IF is_xor(pt, pt.parent[tree])
       THEN \E i \in DOMAIN sibs : i # idx /\ is_open(state, sibs[i])
       ELSE IF is_redo_child(pt, tree)
       THEN \A i \in 1..(idx - 1) : is_open(state, sibs[i])
       ELSE FALSE

\* the activation that treats the children of a Xor as those of a Parallel
future_to_open_sibling_conditions_xor_as_parallel(pt, state, tree) ==
    LET parent == pt.parent[tree]
        sibs == pt.children[parent]
        idx == ChildIndex(pt, tree)
    IN IF is_parallel(pt, parent) \/ is_xor(pt, parent) THEN TRUE
       ELSE IF is_sequence(pt, parent)
       THEN /\ \A i \in 1..(idx - 1) : all_descendants_closed(pt, state, sibs[i])
            /\ \A i \in (idx + 1)..Len(sibs) : all_descendants_future(pt, state, sibs[i])
       ELSE IF is_reverse_sequence(pt, parent)
       THEN /\ \A i \in 1..(idx - 1) : all_descendants_future(pt, state, sibs[i])
            /\ \A i \in (idx + 1)..Len(sibs) : all_descendants_closed(pt, state, sibs[i])
       ELSE IF is_do_child(pt, tree)
       THEN all_descendants_future(pt, state, sibs[2])
       ELSE IF is_redo_child(pt, tree)
       THEN all_descendants_closed(pt, state, sibs[1])
       ELSE FALSE

future_to_open_sibling_conditions(pt, state, tree) ==
    LET parent == pt.parent[tree]
        sibs == pt.children[parent]
        idx == ChildIndex(pt, tree)
    IN IF is_parallel(pt, parent) THEN TRUE
       ELSE IF is_sequence(pt, parent)
       THEN /\ \A i \in 1..(idx - 1) : all_descendants_closed(pt, state, sibs[i])
            /\ \A i \in (idx + 1)..Len(sibs) : all_descendants_future(pt, state, sibs[i])
       ELSE IF is_reverse_sequence(pt, parent)
       THEN /\ \A i \in 1..(idx - 1) : all_descendants_future(pt, state, sibs[i])
            /\ \A i \in (idx + 1)..Len(sibs) : all_descendants_closed(pt, state, sibs[i])
       ELSE IF is_xor(pt, parent)
       THEN \A i \in DOMAIN sibs : all_descendants_future(pt, state, sibs[i])
       ELSE IF is_do_child(pt, tree)
       THEN all_descendants_future(pt, state, sibs[2])
       ELSE IF is_redo_child(pt, tree)
       THEN all_descendants_closed(pt, state, sibs[1])
       ELSE FALSE

\* the completion under the clauses of the activation, Loop included
open_to_closed_sibling_conditions_loop_as_activation(pt, state, tree) ==
    IF is_xor(pt, pt.parent[tree])
    THEN \A i \in DOMAIN pt.children[pt.parent[tree]] :
            pt.children[pt.parent[tree]][i] # tree
                => all_descendants_closed(pt, state, pt.children[pt.parent[tree]][i])
    ELSE future_to_open_sibling_conditions(pt, state, tree)

open_to_closed_sibling_conditions(pt, state, tree) ==
    LET parent == pt.parent[tree]
        sibs == pt.children[parent]
        idx == ChildIndex(pt, tree)
    IN IF is_parallel(pt, parent) THEN TRUE
       ELSE IF is_sequence(pt, parent)
       THEN /\ \A i \in 1..(idx - 1) : all_descendants_closed(pt, state, sibs[i])
            /\ \A i \in (idx + 1)..Len(sibs) : all_descendants_future(pt, state, sibs[i])
       ELSE IF is_reverse_sequence(pt, parent)
       THEN /\ \A i \in 1..(idx - 1) : all_descendants_future(pt, state, sibs[i])
            /\ \A i \in (idx + 1)..Len(sibs) : all_descendants_closed(pt, state, sibs[i])
       ELSE IF is_xor(pt, parent)
       THEN \A i \in DOMAIN sibs :
               sibs[i] # tree => all_descendants_closed(pt, state, sibs[i])
       ELSE IF is_do_child(pt, tree)
       THEN all_descendants_closed(pt, state, sibs[2])
       ELSE IF is_redo_child(pt, tree)
       THEN all_descendants_future(pt, state, sibs[1])
       ELSE FALSE

\* the activation without the test that the parent is Open
can_future_to_open_parent_unchecked(pt, state, tree) ==
    IF ~(\A i \in DOMAIN pt.children[tree] :
            all_descendants_future(pt, state, pt.children[tree][i]))
    THEN FALSE
    ELSE IF is_root(pt, tree) THEN TRUE
    ELSE future_to_open_sibling_conditions(pt, state, tree)

\* the activation without the clause that admits the root
can_future_to_open_never_root(pt, state, tree) ==
    IF ~(\A i \in DOMAIN pt.children[tree] :
            all_descendants_future(pt, state, pt.children[tree][i]))
    THEN FALSE
    ELSE IF is_root(pt, tree) THEN FALSE
    ELSE IF ~is_open(state, pt.parent[tree]) THEN FALSE
    ELSE future_to_open_sibling_conditions(pt, state, tree)

can_future_to_open(pt, state, tree) ==
    IF ~(\A i \in DOMAIN pt.children[tree] :
            all_descendants_future(pt, state, pt.children[tree][i]))
    THEN FALSE
    ELSE IF is_root(pt, tree) THEN TRUE
    ELSE IF ~is_open(state, pt.parent[tree]) THEN FALSE
    ELSE future_to_open_sibling_conditions(pt, state, tree)

can_open_to_closed(pt, state, tree) ==
    IF ~(\A i \in DOMAIN pt.children[tree] :
            all_descendants_closed(pt, state, pt.children[tree][i]))
    THEN FALSE
    ELSE IF is_root(pt, tree) THEN TRUE
    ELSE IF ~is_open(state, pt.parent[tree]) THEN FALSE
    ELSE open_to_closed_sibling_conditions(pt, state, tree)

RECURSIVE can_future_to_closed(_, _, _)
can_future_to_closed(pt, state, tree) ==
    IF ~is_future(state, tree) THEN FALSE
    ELSE IF is_root(pt, tree) THEN FALSE
    ELSE IF is_open(state, pt.parent[tree])
    THEN future_to_closed_sibling_conditions(pt, state, tree)
    ELSE can_future_to_closed(pt, state, pt.parent[tree])

RECURSIVE can_closed_to_future(_, _, _)
can_closed_to_future(pt, state, tree) ==
    IF ~is_closed(state, tree) THEN FALSE
    ELSE IF is_root(pt, tree) THEN FALSE
    ELSE IF is_open(state, pt.parent[tree])
    THEN closed_to_future_sibling_conditions(pt, state, tree)
    ELSE can_closed_to_future(pt, state, pt.parent[tree])

\* the enumeration with a third early return, after an admitted skip
RECURSIVE valid_transitions_from_return_after_skip(_, _, _)
valid_transitions_from_return_after_skip(pt, state, tree) ==
    IF is_future(state, tree) /\ can_future_to_open(pt, state, tree)
    THEN {future_to_open(tree)}
    ELSE IF is_open(state, tree) /\ can_open_to_closed(pt, state, tree)
    THEN {open_to_closed(tree)}
    ELSE IF is_future(state, tree) /\ can_future_to_closed(pt, state, tree)
    THEN {future_to_closed(tree)}
    ELSE (IF is_closed(state, tree) /\ can_closed_to_future(pt, state, tree)
          THEN {closed_to_future(tree)} ELSE {})
         \cup
         UNION {valid_transitions_from_return_after_skip(pt, state,
                                                         pt.children[tree][i]) :
                    i \in DOMAIN pt.children[tree]}

\* get_valid_transitions on the subtree rooted at tree; the two early returns
\* leave the descendants of an activated or completed node unvisited
RECURSIVE valid_transitions_from(_, _, _)
valid_transitions_from(pt, state, tree) ==
    IF is_future(state, tree) /\ can_future_to_open(pt, state, tree)
    THEN {future_to_open(tree)}
    ELSE IF is_open(state, tree) /\ can_open_to_closed(pt, state, tree)
    THEN {open_to_closed(tree)}
    ELSE (IF is_future(state, tree) /\ can_future_to_closed(pt, state, tree)
          THEN {future_to_closed(tree)} ELSE {})
         \cup
         (IF is_closed(state, tree) /\ can_closed_to_future(pt, state, tree)
          THEN {closed_to_future(tree)} ELSE {})
         \cup
         UNION {valid_transitions_from(pt, state, pt.children[tree][i]) :
                    i \in DOMAIN pt.children[tree]}

\* the call on the root, as _expand makes it
get_valid_transitions(pt, state) == valid_transitions_from(pt, state, 1)

(***************************************************************************)
(* search.py                                                               *)
(*                                                                         *)
(* An Optional field holds <<>> for None and <<v>> for the value v; a      *)
(* leaf_execution of 0 is None.  A SearchState keeps its parent search     *)
(* state as a nested value.  previous_valid_transitions is written once    *)
(* and never read, and is left out.                                        *)
(***************************************************************************)
maxsize == 2147483647

VARIABLES
    tree,               \* PtStateSpaceSearch.tree
    reverse_tree,       \* PtStateSpaceSearch._reverse_tree
    open_set_forward,   \* SearchDataStructures: the two heaps, as sets
    open_set_backward,
    distances_forward,  \* tree state -> <<cost or visited mark, search state>>
    distances_backward,
    meeting_info,       \* MeetingInfo
    visited_state,      \* SearchStatistics.visited_state
    expand_forward,     \* locals of search()
    lock_direction,
    pc,                 \* position in search()
    result,             \* Optional SearchResult
    sigma,              \* the tree state of a walk through the state graph
    tr,                 \* a transition followed by its successive inversions
    vec,                \* a tree state followed by its successive inversions
    text                \* the rendering of a tree state and what parsing it gives

vars == <<tree, reverse_tree, open_set_forward, open_set_backward,
          distances_forward, distances_backward, meeting_info, visited_state,
          expand_forward, lock_direction, pc, result, sigma, tr, vec, text>>

searchVars == <<reverse_tree, open_set_forward, open_set_backward,
                distances_forward, distances_backward, meeting_info,
                visited_state, expand_forward, lock_direction, pc, result>>

\* nothing rendered and nothing parsed yet
NoText == [rendered |-> <<>>, parsed |-> <<>>]

\* a search state for which the execution of a leaf costs 2
SearchState_leaf_costs_two(dist, depth, tree_state, from_start, transition, leaf_execution, parent) ==
    [dist |-> IF leaf_execution # 0 THEN dist + 1 ELSE dist,
     depth |-> depth, tree_state |-> tree_state,
     from_start |-> from_start, transition |-> transition,
     leaf_execution |-> leaf_execution, parent |-> parent]

SearchState(dist, depth, tree_state, from_start, transition, leaf_execution, parent) ==
    [dist |-> dist, depth |-> depth, tree_state |-> tree_state,
     from_start |-> from_start, transition |-> transition,
     leaf_execution |-> leaf_execution, parent |-> parent]

\* list(SearchStateIterator(search_state)): the state, its parent, ... the root
RECURSIVE SearchStateIterator(_)
SearchStateIterator(search_state) ==
    IF search_state = <<>> THEN <<>>
    ELSE <<search_state[1]>> \o SearchStateIterator(search_state[1].parent)

MeetingInfo == [best_path_cost |-> maxsize, start_node |-> <<>>, end_node |-> <<>>]

Reverse(seq) == [i \in 1..Len(seq) |-> seq[Len(seq) + 1 - i]]

\* the orders in which a for loop can run through a set
Orders(S) ==
    {seq \in [1..Cardinality(S) -> S] :
        \A i, j \in 1..Cardinality(S) : seq[i] = seq[j] => i = j}

\* an assignment that leaves the entry of a key already present as it is
Put_keep_existing(d, key, value) ==
    [k \in (DOMAIN d) \cup {key} |-> IF k \in DOMAIN d THEN d[k] ELSE value]

\* dict assignment d[key] = value
Put(d, key, value) ==
    [k \in (DOMAIN d) \cup {key} |-> IF k = key THEN value ELSE d[k]]

\* the meeting check that looks the tree state up without inverting it
check_for_match_not_inverted(search_state, distance_map_other_dir, mi) ==
    IF search_state.tree_state \in DOMAIN distance_map_other_dir
    THEN LET match == distance_map_other_dir[search_state.tree_state][2]
         IN IF match.dist + search_state.dist < mi.best_path_cost
            THEN [best_path_cost |-> match.dist + search_state.dist,
                  start_node |-> IF search_state.from_start
                                 THEN <<search_state>> ELSE <<match>>,
                  end_node   |-> IF ~search_state.from_start
                                 THEN <<search_state>> ELSE <<match>>]
            ELSE mi
    ELSE mi

\* the meeting check that hands out the two nodes the wrong way round
check_for_match_roles_swapped(search_state, distance_map_other_dir, mi) ==
    IF invert(search_state.tree_state) \in DOMAIN distance_map_other_dir
    THEN LET match == distance_map_other_dir[invert(search_state.tree_state)][2]
         IN IF match.dist + search_state.dist < mi.best_path_cost
            THEN [best_path_cost |-> match.dist + search_state.dist,
                  start_node |-> IF search_state.from_start
                                 THEN <<match>> ELSE <<search_state>>,
                  end_node   |-> IF ~search_state.from_start
                                 THEN <<match>> ELSE <<search_state>>]
            ELSE mi
    ELSE mi

\* the meeting info after _check_for_match(search_state)
check_for_match(search_state, distance_map_other_dir, mi) ==
    LET inverse_state == invert(search_state.tree_state)
    IN IF inverse_state \in DOMAIN distance_map_other_dir
       THEN LET match == distance_map_other_dir[inverse_state][2]
            IN IF match.dist + search_state.dist < mi.best_path_cost
               THEN [best_path_cost |-> match.dist + search_state.dist,
                     start_node |-> IF search_state.from_start
                                    THEN <<search_state>> ELSE <<match>>,
                     end_node   |-> IF ~search_state.from_start
                                    THEN <<search_state>> ELSE <<match>>]
               ELSE mi
       ELSE mi

\* the leaf recorded whatever the direction of the expansion
executed_leaf_any_direction(pt, is_forward, transition) ==
    IF /\ is_leaf(pt, transition.node)
       /\ is_future_to_open(transition) \/ is_open_to_closed(transition)
    THEN transition.node ELSE 0

\* the leaf recorded on Future->Open in both directions
executed_leaf_on_activation(pt, is_forward, transition) ==
    IF is_leaf(pt, transition.node) /\ is_future_to_open(transition)
    THEN transition.node ELSE 0

\* executed_leaf of _expand: the leaf a transition executes, 0 for None
executed_leaf(pt, is_forward, transition) ==
    IF /\ is_leaf(pt, transition.node)
       /\ \/ is_future_to_open(transition) /\ is_forward
          \/ is_open_to_closed(transition) /\ ~is_forward
    THEN transition.node ELSE 0

\* one pass of the for loop of _expand: the successor along transition
expand_transition(pt, is_forward, search_state, transition, other_map, acc) ==
    LET new_state ==
            SearchState(search_state.dist + 1,
                        search_state.depth + 1,
                        update(search_state.tree_state, transition.node,
                               transition.to_state),
                        is_forward, <<transition>>,
                        executed_leaf(pt, is_forward, transition),
                        <<search_state>>)
    IN IF \/ new_state.tree_state \notin DOMAIN acc.distance_map
          \/ acc.distance_map[new_state.tree_state][1] > new_state.dist
       THEN [open_set     |-> acc.open_set \cup {new_state},
             distance_map |-> Put(acc.distance_map, new_state.tree_state,
                                  <<new_state.dist, new_state>>),
             meeting_info |-> check_for_match(new_state, other_map,
                                              acc.meeting_info)]
       ELSE acc

RECURSIVE expand_loop(_, _, _, _, _, _)
expand_loop(pt, is_forward, search_state, order, other_map, acc) ==
    IF order = <<>> THEN acc
    ELSE expand_loop(pt, is_forward, search_state, Tail(order), other_map,
                     expand_transition(pt, is_forward, search_state,
                                       Head(order), other_map, acc))

\* a pop that may return any state of the heap
MinDist_any_state(open_set) == open_set

\* heapq.heappop returns a state of least dist; which one among equals is
\* decided by the layout of the heap
MinDist(open_set) == {s \in open_set : \A o \in open_set : ~(o.dist < s.dist)}

\* self._expand(expand_forward=is_forward)
Expand(is_forward) ==
    LET pt == IF is_forward THEN tree ELSE reverse_tree
        open_set == IF is_forward THEN open_set_forward ELSE open_set_backward
        distance_map == IF is_forward THEN distances_forward ELSE distances_backward
        other_map == IF is_forward THEN distances_backward ELSE distances_forward
    IN IF open_set = {}
       THEN UNCHANGED <<open_set_forward, open_set_backward, distances_forward,
                        distances_backward, meeting_info, visited_state>>
       ELSE \E search_state \in MinDist(open_set) :
            LET cost_so_far ==
                    IF search_state.tree_state \in DOMAIN distance_map
                    THEN distance_map[search_state.tree_state][1]
                    ELSE maxsize
                popped == open_set \ {search_state}
            IN IF cost_so_far = -maxsize
               THEN /\ IF is_forward
                       THEN /\ open_set_forward' = popped
                            /\ UNCHANGED open_set_backward
                       ELSE /\ open_set_backward' = popped
                            /\ UNCHANGED open_set_forward
                    /\ UNCHANGED <<distances_forward, distances_backward,
                                   meeting_info, visited_state>>
               ELSE \E order \in Orders(get_valid_transitions(pt, search_state.tree_state)) :
                    LET acc == expand_loop(pt, is_forward, search_state, order, other_map,
                                   [open_set     |-> popped,
                                    distance_map |-> Put(distance_map,
                                                         search_state.tree_state,
                                                         <<-maxsize, search_state>>),
                                    meeting_info |-> meeting_info])
                    IN /\ visited_state' = visited_state + 1
                       /\ meeting_info' = acc.meeting_info
                       /\ IF is_forward
                          THEN /\ open_set_forward' = acc.open_set
                               /\ distances_forward' = acc.distance_map
                               /\ UNCHANGED <<open_set_backward, distances_backward>>
                          ELSE /\ open_set_backward' = acc.open_set
                               /\ distances_backward' = acc.distance_map
                               /\ UNCHANGED <<open_set_forward, distances_forward>>

\* _construct_search_result(state_start, state_end)
construct_search_result(state_start, state_end, stats) ==
    LET search_state_sequence_start == Reverse(SearchStateIterator(state_start))
        search_state_sequence_end == SearchStateIterator(state_end)
        firing_sequence_start ==
            [i \in 1..Len(SelectSeq(search_state_sequence_start,
                                    LAMBDA st : st.transition # <<>>)) |->
                SelectSeq(search_state_sequence_start,
                          LAMBDA st : st.transition # <<>>)[i].transition[1]]
        firing_sequence_end ==
            [i \in 1..Len(SelectSeq(search_state_sequence_end,
                                    LAMBDA st : st.transition # <<>>)) |->
                transition_invert(
                    SelectSeq(search_state_sequence_end,
                              LAMBDA st : st.transition # <<>>)[i].transition[1])]
        leaf_sequence_start ==
            [i \in 1..Len(SelectSeq(search_state_sequence_start,
                                    LAMBDA st : st.leaf_execution # 0)) |->
                SelectSeq(search_state_sequence_start,
                          LAMBDA st : st.leaf_execution # 0)[i].leaf_execution]
        leaf_sequence_end ==
            [i \in 1..Len(SelectSeq(search_state_sequence_end,
                                    LAMBDA st : st.leaf_execution # 0)) |->
                SelectSeq(search_state_sequence_end,
                          LAMBDA st : st.leaf_execution # 0)[i].leaf_execution]
    IN [cost |-> state_start[1].dist + state_end[1].dist,
        firing_sequence |-> firing_sequence_start \o firing_sequence_end,
        leaf_sequence |-> leaf_sequence_start \o leaf_sequence_end,
        search_stats |-> stats]

\* init_data_structures(), with the arguments of search()
SearchInit(unidirectional) ==
    /\ reverse_tree = get_reverse_tree(tree)
    /\ open_set_forward =
          {SearchState(0, 0, get_initial_state(tree), TRUE, <<>>, 0, <<>>)}
    /\ open_set_backward =
          {SearchState(0, 0, get_initial_state(get_reverse_tree(tree)), FALSE,
                       <<>>, 0, <<>>)}
    /\ distances_forward = <<>>
    /\ distances_backward = <<>>
    /\ meeting_info = MeetingInfo
    /\ visited_state = 0
    /\ expand_forward = TRUE
    /\ lock_direction = unidirectional
    /\ pc = "prime_forward"
    /\ result = <<>>

\* search(), line 131
PrimeForward ==
    /\ pc = "prime_forward"
    /\ Expand(TRUE)
    /\ pc' = "prime_backward"
    /\ UNCHANGED <<tree, reverse_tree, expand_forward, lock_direction, result,
                   sigma, tr, vec, text>>

\* search(), line 132
PrimeBackward ==
    /\ pc = "prime_backward"
    /\ Expand(FALSE)
    /\ pc' = "loop"
    /\ UNCHANGED <<tree, reverse_tree, expand_forward, lock_direction, result,
                   sigma, tr, vec, text>>

LoopTest == open_set_forward # {} \/ open_set_backward # {}

prio_queue_start ==
    IF open_set_forward # {}
    THEN (CHOOSE s \in MinDist(open_set_forward) : TRUE).dist ELSE 0

prio_queue_end ==
    IF open_set_backward # {}
    THEN (CHOOSE s \in MinDist(open_set_backward) : TRUE).dist ELSE 0

\* the two returns inside the loop, lines 138-146
LoopReturn ==
    /\ pc = "loop"
    /\ LoopTest
    /\ \/ meeting_info.start_node # <<>>
       \/ prio_queue_end + prio_queue_start >= meeting_info.best_path_cost
    /\ result' = <<construct_search_result(meeting_info.start_node,
                                           meeting_info.end_node, visited_state)>>
    /\ pc' = "returned"
    /\ UNCHANGED <<tree, reverse_tree, open_set_forward, open_set_backward,
                   distances_forward, distances_backward, meeting_info,
                   visited_state, expand_forward, lock_direction, sigma, tr, vec, text>>

\* a pass of the loop that expands although a meeting is recorded, as long
\* as the bound on the two heaps does not stop it
LoopExpand_despite_meeting ==
    /\ pc = "loop"
    /\ LoopTest
    /\ ~(prio_queue_end + prio_queue_start >= meeting_info.best_path_cost)
    /\ Expand(expand_forward)
    /\ expand_forward' = (~expand_forward \/ lock_direction)
    /\ UNCHANGED <<tree, reverse_tree, lock_direction, pc, result, sigma, tr, vec, text>>

\* one pass of the loop that expands, lines 148-149
LoopExpand ==
    /\ pc = "loop"
    /\ LoopTest
    /\ meeting_info.start_node = <<>>
    /\ ~(prio_queue_end + prio_queue_start >= meeting_info.best_path_cost)
    /\ Expand(expand_forward)
    /\ expand_forward' = (~expand_forward \/ lock_direction)
    /\ UNCHANGED <<tree, reverse_tree, lock_direction, pc, result, sigma, tr, vec, text>>

\* raise ValueError("Nothing found"), line 151
RaiseNothingFound ==
    /\ pc = "loop"
    /\ ~LoopTest
    /\ pc' = "raised"
    /\ UNCHANGED <<tree, reverse_tree, open_set_forward, open_set_backward,
                   distances_forward, distances_backward, meeting_info,
                   visited_state, expand_forward, lock_direction, result,
                   sigma, tr, vec, text>>

Init ==
    /\ tree \in SearchTrees
    /\ SearchInit(FALSE)
    /\ sigma = get_initial_state(tree)
    /\ tr = <<>>
    /\ vec = <<>>
    /\ text = NoText

Next ==
    \/ PrimeForward
    \/ PrimeBackward
    \/ LoopReturn
    \/ LoopExpand
    \/ RaiseNothingFound

\* search(tree) in the default bidirectional mode
Spec == Init /\ [][Next]_vars

\* the trees search() is run on with either value of the toggle: with the
\* direction locked the forward search runs through the whole state graph
ToggleTrees == {pt \in SearchTrees : Cardinality(Nodes(pt)) <= MaxToggleNodes}

ToggleInit ==
    /\ tree \in ToggleTrees
    /\ \E unidirectional \in BOOLEAN : SearchInit(unidirectional)
    /\ sigma = get_initial_state(tree)
    /\ tr = <<>>
    /\ vec = <<>>
    /\ text = NoText

\* search(tree, unidirectional) for both values of unidirectional
ToggleSpec == ToggleInit /\ [][Next]_vars

\* the loop of search() goes on as long as it can: the interpreter runs the
\* next statement
ToggleLiveSpec == ToggleSpec /\ WF_vars(Next)

(***************************************************************************)
(* The state graph of a tree: from the all-Future state, fire any          *)
(* transition that get_valid_transitions enumerates, as _expand does to    *)
(* build a successor.                                                      *)
(***************************************************************************)
Fire ==
    /\ \E transition \in get_valid_transitions(tree, sigma) :
          sigma' = update(sigma, transition.node, transition.to_state)
    /\ UNCHANGED <<tree, searchVars, tr, vec, text>>

SemInit ==
    /\ tree \in Trees
    /\ SearchInit(FALSE)
    /\ sigma = get_initial_state(tree)
    /\ tr = <<>>
    /\ vec = <<>>
    /\ text = NoText

SemNext == Fire

SemSpec == SemInit /\ [][SemNext]_vars

\* trees of seven nodes with a Xor below a Loop that is itself below a Xor or
\* a Loop: the inner Loop cannot complete at once, so its children are
\* re-armed; the Xor is the do child in the first shape, the redo child in
\* the second
NestedLoopShapes == {<<0, 1, 2, 3, 3, 2, 1>>, <<0, 1, 2, 2, 4, 4, 1>>}

NestedLoopTrees ==
    {pt \in UNION {TreesOfShape(par) : par \in NestedLoopShapes} :
        /\ pt.operator[1] \in {"X", "*"}
        /\ pt.operator[2] = "*"
        /\ \A i \in Inner(pt) \ {1, 2} : pt.operator[i] = "X"}

NestedInit ==
    /\ tree \in Trees \cup NestedLoopTrees
    /\ SearchInit(FALSE)
    /\ sigma = get_initial_state(tree)
    /\ tr = <<>>
    /\ vec = <<>>
    /\ text = NoText

\* the state graphs of the trees of SemSpec and of the nested Loop trees
NestedSpec == NestedInit /\ [][SemNext]_vars

(***************************************************************************)
(* The algebra of inversions: Transition.invert and TupleTreeState.invert  *)
(* applied to arbitrary transitions and tree states.                       *)
(***************************************************************************)
Positions == 1..MaxNodes

Transitions ==
    {Transition(node, from_state, to_state) :
        node \in Positions, from_state \in NodeState, to_state \in NodeState}

TreeStates == UNION {[1..n -> NodeState] : n \in Positions}

InvertTransition ==
    /\ Len(tr) <= MaxInversions
    /\ tr' = Append(tr, transition_invert(tr[Len(tr)]))
    /\ UNCHANGED <<tree, searchVars, sigma, vec, text>>

InvertTreeState ==
    /\ Len(vec) <= MaxInversions
    /\ vec' = Append(vec, invert(vec[Len(vec)]))
    /\ UNCHANGED <<tree, searchVars, sigma, tr, text>>

AlgebraInit ==
    /\ tree = MakeTree(<<0>>, <<>>)
    /\ SearchInit(FALSE)
    /\ sigma = get_initial_state(tree)
    /\ \E t \in Transitions : tr = <<t>>
    /\ \E v \in TreeStates : vec = <<v>>
    /\ text = NoText

AlgebraNext == InvertTransition \/ InvertTreeState

AlgebraSpec == AlgebraInit /\ [][AlgebraNext]_vars

(***************************************************************************)
(* The text of a tree state: repr(s), then TupleTreeState.from_string of   *)
(* the string repr gave.                                                   *)
(***************************************************************************)
Render ==
    /\ text.rendered = <<>>
    /\ text' = [text EXCEPT !.rendered = <<repr(vec[1])>>]
    /\ UNCHANGED <<tree, searchVars, sigma, tr, vec>>

FromString ==
    /\ text.rendered # <<>>
    /\ text.parsed = <<>>
    /\ text' = [text EXCEPT !.parsed = <<from_string(text.rendered[1])>>]
    /\ UNCHANGED <<tree, searchVars, sigma, tr, vec>>

TextInit ==
    /\ tree = MakeTree(<<0>>, <<>>)
    /\ SearchInit(FALSE)
    /\ sigma = get_initial_state(tree)
    /\ tr = <<>>
    /\ \E v \in TreeStates : vec = <<v>>
    /\ text = NoText

TextNext == Render \/ FromString

TextSpec == TextInit /\ [][TextNext]_vars

(***************************************************************************)
(* Properties                                                              *)
(***************************************************************************)
Returned == pc = "returned"
Raised == pc = "raised"

AllClosed(pt) == [i \in Nodes(pt) |-> "Closed"]

Successors(pt, state) ==
    {update(state, t.node, t.to_state) : t \in get_valid_transitions(pt, state)}

\* length of a shortest path from the states of frontier (at distance d) to
\* goal in the state graph of pt, -1 when there is none
RECURSIVE Distance(_, _, _, _, _)
Distance(pt, frontier, seen, goal, d) ==
    IF goal \in frontier THEN d
    ELSE IF frontier = {} THEN -1
    ELSE LET next == (UNION {Successors(pt, s) : s \in frontier}) \ seen
         IN Distance(pt, next, seen \cup next, goal, d + 1)

ShortestPathLength(pt) ==
    Distance(pt, {get_initial_state(pt)}, {get_initial_state(pt)}, AllClosed(pt), 0)

\* firing seq from state is legal move by move and ends in the all-Closed state
RECURSIVE LegalExecution(_, _, _)
LegalExecution(pt, state, seq) ==
    IF seq = <<>> THEN state = AllClosed(pt)
    ELSE /\ Head(seq).from_state = get_state(state, Head(seq).node)
         /\ Head(seq) \in get_valid_transitions(pt, state)
         /\ LegalExecution(pt, update(state, Head(seq).node, Head(seq).to_state),
                           Tail(seq))

LeafLabels(pt, leaf_sequence) ==
    [i \in DOMAIN leaf_sequence |-> pt.label[leaf_sequence[i]]]

Leaves(pt) == {i \in Nodes(pt) : is_leaf(pt, i)}

\* C1: on a well-formed tree the returned cost is the length of a shortest
\* path from all-Future to all-Closed in the state graph of the tree
C1_ReturnedCostIsShortest ==
    (Returned /\ WellFormed(tree))
        => result[1].cost = ShortestPathLength(tree)

\* C2: the returned firing sequence is a legal execution of the tree from
\* all-Future to all-Closed
C2_FiringSequenceIsLegal ==
    Returned
        => LegalExecution(tree, get_initial_state(tree), result[1].firing_sequence)

\* C3: every transition legal in tree at sigma is, inverted, legal in the
\* mirror tree at the inverted successor and leads to the inverted sigma; and
\* every transition legal in the mirror tree at the inverted sigma is, inverted,
\* legal in tree at the state it came from
C3_ForwardBackwardCorrespondence ==
    /\ \A t \in get_valid_transitions(tree, sigma) :
          LET succ == update(sigma, t.node, t.to_state)
              back == transition_invert(t)
          IN /\ back \in get_valid_transitions(get_reverse_tree(tree), invert(succ))
             /\ update(invert(succ), back.node, back.to_state) = invert(sigma)
    /\ \A u \in get_valid_transitions(get_reverse_tree(tree), invert(sigma)) :
          LET pred == invert(update(invert(sigma), u.node, u.to_state))
              forth == transition_invert(u)
          IN /\ forth \in get_valid_transitions(tree, pred)
             /\ update(pred, forth.node, forth.to_state) = sigma

\* a tree with no path from all-Future to all-Closed
NoPath(pt) == ShortestPathLength(pt) = -1

\* C4: on a tree with no path from all-Future to all-Closed the search never
\* returns a result, goes on until both heaps are empty, and then raises
C4_NoPathRaisesNothingFound ==
    NoPath(tree)
        => /\ ~Returned
           /\ Raised => (open_set_forward = {} /\ open_set_backward = {})
           /\ Raised \/ ENABLED Next

C4_Witness == Raised /\ NoPath(tree) /\ visited_state > 2

\* C5 as stated: invert keeps the node, pairs Future->Open with Open->Closed
\* and Future->Closed with Closed->Future, and is an involution
C5_InvertPairsSkipWithRearm ==
    /\ Len(tr) >= 2 =>
          /\ tr[2].node = tr[1].node
          /\ is_future_to_open(tr[1]) => is_open_to_closed(tr[2])
          /\ is_open_to_closed(tr[1]) => is_future_to_open(tr[2])
          /\ is_future_to_closed(tr[1]) => is_closed_to_future(tr[2])
          /\ is_closed_to_future(tr[1]) => is_future_to_closed(tr[2])
    /\ Len(tr) >= 3 => tr[3] = tr[1]

\* C5: invert keeps the node, pairs Future->Open with Open->Closed, maps
\* Future->Closed to itself and Closed->Future to itself, and is an involution
C5_InvertPairsActivationWithCompletion ==
    /\ Len(tr) >= 2 =>
          /\ tr[2].node = tr[1].node
          /\ is_future_to_open(tr[1]) => is_open_to_closed(tr[2])
          /\ is_open_to_closed(tr[1]) => is_future_to_open(tr[2])
          /\ is_future_to_closed(tr[1]) => is_future_to_closed(tr[2])
          /\ is_closed_to_future(tr[1]) => is_closed_to_future(tr[2])
    /\ Len(tr) >= 3 => tr[3] = tr[1]

C5_Witness == Len(tr) = 3 /\ is_future_to_closed(tr[1]) /\ tr[1].node = MaxNodes

\* the non-root Open nodes whose children's subtrees are all-Closed and whose
\* parent is Open
Completable(pt, state) ==
    {n \in Nodes(pt) :
        /\ ~is_root(pt, n)
        /\ is_open(state, n)
        /\ \A i \in DOMAIN pt.children[n] :
              all_descendants_closed(pt, state, pt.children[n][i])
        /\ is_open(state, pt.parent[n])}

LeftSiblings(pt, n) ==
    {m \in Nodes(pt) : pt.parent[m] = pt.parent[n] /\ m < n}

RightSiblings(pt, n) ==
    {m \in Nodes(pt) : pt.parent[m] = pt.parent[n] /\ m > n}

\* C6 as stated: a completable node is completed under the sibling clause of
\* can_future_to_open, except that under Xor every other sibling's subtree
\* must be all-Closed
C6_CompletionUsesActivationClause ==
    \A n \in Completable(tree, sigma) :
        can_open_to_closed(tree, sigma, n)
            <=> IF is_xor(tree, tree.parent[n])
                THEN \A m \in LeftSiblings(tree, n) \cup RightSiblings(tree, n) :
                        all_descendants_closed(tree, sigma, m)
                ELSE future_to_open_sibling_conditions(tree, sigma, n)

\* C6: a completable node is completed exactly when: Parallel parent, always;
\* Sequence, left siblings all-Closed and right siblings all-Future;
\* ReverseSequence, left all-Future and right all-Closed; Xor, every other
\* sibling all-Closed; Loop do child, the redo subtree all-Closed; Loop redo
\* child, the do subtree all-Future
C6_CompletionClause ==
    \A n \in Completable(tree, sigma) :
        LET p == tree.parent[n]
            left == LeftSiblings(tree, n)
            right == RightSiblings(tree, n)
            closed(S) == \A m \in S : all_descendants_closed(tree, sigma, m)
            future(S) == \A m \in S : all_descendants_future(tree, sigma, m)
        IN can_open_to_closed(tree, sigma, n)
            <=> CASE tree.operator[p] = "+" -> TRUE
                  [] tree.operator[p] = "->" -> closed(left) /\ future(right)
                  [] tree.operator[p] = "<-" -> future(left) /\ closed(right)
                  [] tree.operator[p] = "X" -> closed(left \cup right)
                  [] tree.operator[p] = "*" /\ left = {} ->
                        closed({tree.children[p][2]})
                  [] tree.operator[p] = "*" /\ Cardinality(left) = 1 ->
                        future({tree.children[p][1]})
                  [] OTHER -> FALSE

\* a Loop's do child is completed while the redo subtree is all-Closed
C6_Witness ==
    \E n \in Completable(tree, sigma) :
        /\ is_do_child(tree, n)
        /\ Len(tree.children[n]) > 0
        /\ can_open_to_closed(tree, sigma, n)

XorAB == MakeTree(<<0, 1, 1>>, [i \in {1} |-> "X"])
LoopAB == MakeTree(<<0, 1, 1>>, [i \in {1} |-> "*"])
SequenceAB == MakeTree(<<0, 1, 1>>, [i \in {1} |-> "->"])

\* C7 as stated: on X('a','b') the search returns cost 4 and leaf sequence
\* [a] or [b]
C7_XorCostFour ==
    tree = XorAB
        => /\ ~Raised
           /\ Returned =>
                 /\ result[1].cost = 4
                 /\ LeafLabels(tree, result[1].leaf_sequence) \in {<<"a">>, <<"b">>}

\* C7: on X('a','b') the search returns cost 5 (the alternative not taken is
\* skipped by a transition of its own) and leaf sequence [a] or [b]
C7_XorCostFive ==
    tree = XorAB
        => /\ ~Raised
           /\ Returned =>
                 /\ result[1].cost = 5
                 /\ LeafLabels(tree, result[1].leaf_sequence) \in {<<"a">>, <<"b">>}

C7_Witness ==
    /\ tree = XorAB
    /\ Returned
    /\ LeafLabels(tree, result[1].leaf_sequence) = <<"b">>

\* C8 as stated: on *('a','b') the search returns cost 6 and leaf sequence [a]
C8_LoopCostSix ==
    tree = LoopAB
        => /\ ~Raised
           /\ Returned =>
                 /\ result[1].cost = 6
                 /\ LeafLabels(tree, result[1].leaf_sequence) = <<"a">>

\* C8: on *('a','b') the search returns cost 5 (activate the loop, activate a,
\* skip b, complete a, complete the loop) and leaf sequence [a]
C8_LoopCostFive ==
    tree = LoopAB
        => /\ ~Raised
           /\ Returned =>
                 /\ result[1].cost = 5
                 /\ result[1].firing_sequence =
                       <<future_to_open(1), future_to_open(2), future_to_closed(3),
                         open_to_closed(2), open_to_closed(1)>>
                 /\ LeafLabels(tree, result[1].leaf_sequence) = <<"a">>

C8_Witness ==
    /\ tree = LoopAB
    /\ Returned
    /\ future_to_closed(3) \in
          {result[1].firing_sequence[i] : i \in DOMAIN result[1].firing_sequence}

\* C9: on ->('a','b') the search returns cost 6 (activate root, activate a,
\* complete a, activate b, complete b, complete root) and leaf sequence [a, b]
C9_SequenceCostSix ==
    tree = SequenceAB
        => /\ ~Raised
           /\ Returned =>
                 /\ result[1].cost = 6
                 /\ result[1].firing_sequence =
                       <<future_to_open(1), future_to_open(2), open_to_closed(2),
                         future_to_open(3), open_to_closed(3), open_to_closed(1)>>
                 /\ LeafLabels(tree, result[1].leaf_sequence) = <<"a", "b">>

C9_Witness ==
    /\ tree = SequenceAB
    /\ Returned
    /\ Len(result[1].leaf_sequence) = 2

\* each leaf of pt occurs exactly once in leaf_sequence, and nothing else does
EachLeafOnce(pt, leaf_sequence) ==
    /\ Len(leaf_sequence) = Cardinality(Leaves(pt))
    /\ \A l \in Leaves(pt) :
          Cardinality({i \in DOMAIN leaf_sequence : leaf_sequence[i] = l}) = 1

\* C10 as stated: the returned leaf sequence holds every leaf of the tree
\* exactly once
C10_EveryLeafOnce ==
    Returned => EachLeafOnce(tree, result[1].leaf_sequence)

NoChoice(pt) == \A i \in Nodes(pt) : pt.operator[i] \notin {"X", "*"}

\* C10: on a tree without Xor and Loop nodes the returned leaf sequence holds
\* every leaf of the tree exactly once
C10_EveryLeafOnceWithoutChoice ==
    (Returned /\ NoChoice(tree)) => EachLeafOnce(tree, result[1].leaf_sequence)

C10_Witness ==
    /\ Returned
    /\ NoChoice(tree)
    /\ Cardinality(Leaves(tree)) >= 3
    /\ \E i \in Nodes(tree) : tree.operator[i] = "<-"

\* C11: inverting a tree state keeps its length and replaces every cell by
\* invert_node_state of that cell (Closed <-> Future, Open fixed); inverting
\* twice gives the tree state back
C11_TreeStateInvertCellwise ==
    /\ Len(vec) >= 2 =>
          /\ Len(vec[2]) = Len(vec[1])
          /\ DOMAIN vec[2] = DOMAIN vec[1]
          /\ \A i \in DOMAIN vec[1] :
                /\ vec[2][i] = invert_node_state(vec[1][i])
                /\ vec[1][i] = "Closed" => vec[2][i] = "Future"
                /\ vec[1][i] = "Future" => vec[2][i] = "Closed"
                /\ vec[1][i] = "Open" => vec[2][i] = "Open"
    /\ Len(vec) >= 3 => vec[3] = vec[1]

\* C11: a tree state of full length holding all three node states, inverted
\* twice
C11_Witness ==
    /\ Len(vec) = 3
    /\ Len(vec[1]) = MaxNodes
    /\ {vec[1][i] : i \in DOMAIN vec[1]} = NodeState

\* C12: the mirror tree has the positions, labels and child order of the tree,
\* Sequence and ReverseSequence swapped at every node and the other operators
\* kept, every child's parent link on the node that lists it; mirroring the
\* mirror tree gives the tree back, and the tree is never changed
C12_ReverseTreeStructure ==
    /\ [](/\ Nodes(reverse_tree) = Nodes(tree)
          /\ reverse_tree.label = tree.label
          /\ reverse_tree.children = tree.children
          /\ \A i \in Nodes(tree) :
                /\ tree.operator[i] = "->" => reverse_tree.operator[i] = "<-"
                /\ tree.operator[i] = "<-" => reverse_tree.operator[i] = "->"
                /\ tree.operator[i] \notin {"->", "<-"}
                      => reverse_tree.operator[i] = tree.operator[i]
                /\ \A k \in DOMAIN reverse_tree.children[i] :
                      reverse_tree.parent[reverse_tree.children[i][k]] = i
          /\ reverse_tree.parent[1] = 0
          /\ get_reverse_tree(reverse_tree) = tree)
    /\ [][tree' = tree]_vars

\* C12: the mirror of a tree with a ReverseSequence node under a Sequence node
C12_Witness ==
    /\ reverse_tree = get_reverse_tree(tree)
    /\ \E i, j \in Nodes(tree) :
          /\ tree.parent[j] = i
          /\ tree.operator[i] = "->"
          /\ tree.operator[j] = "<-"
          /\ reverse_tree.operator[i] = "<-"
          /\ reverse_tree.operator[j] = "->"

\* C13: in the all-Future state of a tree, and of its mirror tree,
\* get_valid_transitions is not empty and holds nothing but the activation of
\* the root and Future->Closed skips: no Open->Closed, no Closed->Future
C13_InitialStateTransitions ==
    sigma = get_initial_state(tree)
        => \A pt \in {tree, reverse_tree} :
              /\ get_valid_transitions(pt, sigma) # {}
              /\ \A t \in get_valid_transitions(pt, sigma) :
                    /\ t = future_to_open(1) \/ is_future_to_closed(t)
                    /\ ~is_open_to_closed(t)
                    /\ ~is_closed_to_future(t)

\* C13: the all-Future state of a tree of full size with a Loop under a Xor,
\* where the root can be activated
C13_Witness ==
    /\ sigma = get_initial_state(tree)
    /\ Cardinality(Nodes(tree)) = MaxNodes
    /\ \E i \in Nodes(tree) : is_loop(tree, i) /\ is_xor(tree, tree.parent[i])
    /\ future_to_open(1) \in get_valid_transitions(tree, sigma)

\* C14: the rendering of a tree state uses only the characters o, c, f, and
\* parsing the rendering succeeds and gives a tree state equal to the one
\* rendered
C14_TextRoundTrip ==
    /\ text.rendered # <<>> =>
          \A i \in DOMAIN text.rendered[1] :
              text.rendered[1][i] \in {"o", "c", "f"}
    /\ text.parsed # <<>> =>
          /\ text.parsed[1].raised = None
          /\ text.parsed[1].state_list = vec[1]

\* the tree states marked visited in a distance map
Visited(distance_map) ==
    {tree_state \in DOMAIN distance_map :
        distance_map[tree_state][1] = -maxsize}

\* the direction of the expansion a step of search() makes
ExpandsForward ==
    IF pc = "prime_forward" THEN TRUE
    ELSE IF pc = "prime_backward" THEN FALSE
    ELSE expand_forward

\* C15: visited_state never decreases; an expansion that pops a tree state
\* not yet marked visited in its direction marks it and adds exactly 1, an
\* expansion that pops a visited state or finds its heap empty adds nothing,
\* and the counter is the number of tree states marked visited in the two
\* directions, each counted once per direction
C15_VisitedStatesMonotone ==
    [][LET is_forward == ExpandsForward
           expansion == pc \in {"prime_forward", "prime_backward"}
                           \/ (pc = "loop" /\ pc' = "loop")
           open_set == IF is_forward THEN open_set_forward ELSE open_set_backward
           open_set_after ==
               IF is_forward THEN open_set_forward' ELSE open_set_backward'
           distance_map ==
               IF is_forward THEN distances_forward ELSE distances_backward
           distance_map_after ==
               IF is_forward THEN distances_forward' ELSE distances_backward'
       IN /\ visited_state' >= visited_state
          /\ ~expansion => visited_state' = visited_state
          /\ (expansion /\ open_set = {}) => visited_state' = visited_state
          /\ (expansion /\ open_set # {}) =>
                \E popped \in open_set \ open_set_after :
                    IF popped.tree_state \in Visited(distance_map)
                    THEN /\ visited_state' = visited_state
                         /\ distance_map_after = distance_map
                    ELSE /\ visited_state' = visited_state + 1
                         /\ Visited(distance_map_after) =
                               Visited(distance_map) \cup {popped.tree_state}
          /\ Visited(distances_forward) \subseteq Visited(distances_forward')
          /\ Visited(distances_backward) \subseteq Visited(distances_backward')
          /\ visited_state' =
                Cardinality(Visited(distances_forward'))
                    + Cardinality(Visited(distances_backward'))]_vars

\* C15: with the direction locked, the forward heap is empty and the backward
\* heap is not, so the expansions find their heap empty; several states were
\* counted before
C15_Witness ==
    /\ pc = "loop"
    /\ lock_direction
    /\ expand_forward
    /\ open_set_forward = {}
    /\ open_set_backward # {}
    /\ meeting_info.start_node = <<>>
    /\ visited_state >= 4
    /\ visited_state =
          Cardinality(Visited(distances_forward))
              + Cardinality(Visited(distances_backward))

\* C16: with either value of the unidirectional toggle, search() on a tree
\* eventually returns a result or raises "Nothing found"
C16_SearchTerminates == <>(Returned \/ Raised)

\* length of a shortest path from the all-Future state of pt to tree_state in
\* the state graph of pt, -1 when there is none
ShortestDistanceTo(pt, tree_state) ==
    Distance(pt, {get_initial_state(pt)}, {get_initial_state(pt)}, tree_state, 0)

\* C17: in each direction, a tree state newly marked visited is marked with a
\* search state whose dist is at least the dist of every state marked before
\* it, and equal to the length of a shortest path from the all-Future state
\* to that tree state in the state graph of the direction's tree
C17_DijkstraOptimalPerDirection ==
    [][\A is_forward \in BOOLEAN :
          LET pt == IF is_forward THEN tree ELSE reverse_tree
              distance_map ==
                  IF is_forward THEN distances_forward ELSE distances_backward
              distance_map_after ==
                  IF is_forward THEN distances_forward' ELSE distances_backward'
          IN \A tree_state \in Visited(distance_map_after) \ Visited(distance_map) :
                /\ distance_map_after[tree_state][2].tree_state = tree_state
                /\ distance_map_after[tree_state][2].from_start = is_forward
                /\ distance_map_after[tree_state][2].dist =
                      ShortestDistanceTo(pt, tree_state)
                /\ \A before \in Visited(distance_map) :
                      distance_map[before][2].dist
                          <= distance_map_after[tree_state][2].dist]_vars

\* C17: both directions have marked a tree state three transitions away from
\* their all-Future state
C17_Witness ==
    /\ \E tree_state \in Visited(distances_forward) :
          distances_forward[tree_state][2].dist >= 3
    /\ \E tree_state \in Visited(distances_backward) :
          distances_backward[tree_state][2].dist >= 3

\* C18: start_node and end_node are both unset with best_path_cost at its
\* initial maximum, or both set, and then start_node comes from the forward
\* search, end_node from the backward search, the tree state of end_node is
\* the inverted tree state of start_node, and best_path_cost is the sum of
\* their dist; best_path_cost never increases and a meeting is never unset
C18_MeetingInfoInvariant ==
    /\ [](\/ /\ meeting_info.start_node = <<>>
              /\ meeting_info.end_node = <<>>
              /\ meeting_info.best_path_cost = maxsize
           \/ /\ meeting_info.start_node # <<>>
              /\ meeting_info.end_node # <<>>
              /\ meeting_info.start_node[1].from_start = TRUE
              /\ meeting_info.end_node[1].from_start = FALSE
              /\ meeting_info.end_node[1].tree_state =
                    invert(meeting_info.start_node[1].tree_state)
              /\ meeting_info.best_path_cost =
                    meeting_info.start_node[1].dist + meeting_info.end_node[1].dist)
    /\ [][/\ meeting_info'.best_path_cost <= meeting_info.best_path_cost
          /\ meeting_info.start_node # <<>> => meeting_info'.start_node # <<>>]_vars

\* C18: a meeting of two search states that are both at least two
\* transitions away from their all-Future state
C18_Witness ==
    /\ meeting_info.start_node # <<>>
    /\ meeting_info.end_node # <<>>
    /\ meeting_info.start_node[1].dist >= 2
    /\ meeting_info.end_node[1].dist >= 2
    /\ meeting_info.best_path_cost < maxsize

\* the transitions of the state graph without the two early returns: every
\* node whose can_ predicate holds contributes its transition
UnprunedTransitions(pt, state) ==
    UNION {(IF is_future(state, n) /\ can_future_to_open(pt, state, n)
            THEN {future_to_open(n)} ELSE {})
           \cup
           (IF is_future(state, n) /\ can_future_to_closed(pt, state, n)
            THEN {future_to_closed(n)} ELSE {})
           \cup
           (IF is_closed(state, n) /\ can_closed_to_future(pt, state, n)
            THEN {closed_to_future(n)} ELSE {})
           \cup
           (IF is_open(state, n) /\ can_open_to_closed(pt, state, n)
            THEN {open_to_closed(n)} ELSE {}) : n \in Nodes(pt)}

UnprunedSuccessors(pt, state) ==
    {update(state, t.node, t.to_state) : t \in UnprunedTransitions(pt, state)}

RECURSIVE UnprunedDistance(_, _, _, _, _)
UnprunedDistance(pt, frontier, seen, goal, d) ==
    IF goal \in frontier THEN d
    ELSE IF frontier = {} THEN -1
    ELSE LET next == (UNION {UnprunedSuccessors(pt, s) : s \in frontier}) \ seen
         IN UnprunedDistance(pt, next, seen \cup next, goal, d + 1)

UnprunedShortestPathLength(pt) ==
    UnprunedDistance(pt, {get_initial_state(pt)}, {get_initial_state(pt)},
                     AllClosed(pt), 0)

\* C19: on a well-formed tree the shortest path from all-Future to all-Closed
\* in the state graph of get_valid_transitions is as long as the shortest
\* path in the state graph without the two early returns; what
\* get_valid_transitions enumerates is part of the unpruned enumeration
C19_EarlyReturnsKeepShortestPath ==
    WellFormed(tree)
        => /\ get_valid_transitions(tree, sigma)
                 \subseteq UnprunedTransitions(tree, sigma)
           /\ ShortestPathLength(tree) > 0
           /\ ShortestPathLength(tree) = UnprunedShortestPathLength(tree)

\* C19: a state of a well-formed tree with a nested operator where an early
\* return leaves out a transition that the unpruned enumeration holds
C19_Witness ==
    /\ WellFormed(tree)
    /\ \E i \in Inner(tree) : ~is_root(tree, i)
    /\ get_valid_transitions(tree, sigma) # UnprunedTransitions(tree, sigma)

\* the search states of the two heaps and of the two distance maps, with the
\* search states they came from
KnownSearchStates ==
    LET held == open_set_forward \cup open_set_backward
                    \cup {distances_forward[k][2] : k \in DOMAIN distances_forward}
                    \cup {distances_backward[k][2] : k \in DOMAIN distances_backward}
    IN UNION {{SearchStateIterator(<<st>>)[i] :
                  i \in DOMAIN SearchStateIterator(<<st>>)} : st \in held}

\* the leaves activated by a firing sequence, in its order
LeafActivations(pt, firing_sequence) ==
    LET activations ==
            SelectSeq(firing_sequence,
                      LAMBDA t : is_future_to_open(t) /\ is_leaf(pt, t.node))
    IN [i \in DOMAIN activations |-> activations[i].node]

\* C20: a forward search state records a leaf exactly when its transition is
\* Future->Open on a leaf, a backward search state exactly when its
\* transition is Open->Closed on a leaf, and the leaf is the node of the
\* transition; the returned leaf sequence is the sequence of the leaves of
\* the Future->Open transitions on leaves in the returned firing sequence
C20_LeafSequenceIsProjection ==
    /\ \A st \in KnownSearchStates :
          /\ st.transition = <<>> => st.leaf_execution = 0
          /\ st.transition # <<>> =>
                LET t == st.transition[1]
                    records ==
                        /\ is_leaf(tree, t.node)
                        /\ \/ st.from_start /\ is_future_to_open(t)
                           \/ ~st.from_start /\ is_open_to_closed(t)
                IN /\ records => st.leaf_execution = t.node
                   /\ ~records => st.leaf_execution = 0
    /\ Returned =>
          result[1].leaf_sequence =
              LeafActivations(tree, result[1].firing_sequence)

\* C20: a returned leaf sequence with a leaf recorded by the forward search
\* followed by a leaf recorded by the backward search
C20_Witness ==
    /\ Returned
    /\ Len(result[1].leaf_sequence) >= 2
    /\ \E st \in {meeting_info.start_node[1]} :
          \E i \in DOMAIN SearchStateIterator(<<st>>) :
              SearchStateIterator(<<st>>)[i].leaf_execution # 0
    /\ \E st \in {meeting_info.end_node[1]} :
          \E i \in DOMAIN SearchStateIterator(<<st>>) :
              SearchStateIterator(<<st>>)[i].leaf_execution # 0

\* the nodes of pt that are Open in state
OpenNodes(pt, state) == {n \in Nodes(pt) : is_open(state, n)}

\* C21: in every tree state reached from all-Future by the transitions of
\* get_valid_transitions, every Open node other than the root has an Open
\* parent, so the root is Open whenever a node is; the mirror of every tree
\* walked is itself one of the trees walked
C21_OpenNodesAreConnected ==
    /\ get_reverse_tree(tree) \in Trees
    /\ \A n \in OpenNodes(tree, sigma) :
          /\ ~is_root(tree, n) => is_open(sigma, tree.parent[n])
          /\ \A a \in AncestorsOrSelf(tree.parent, n) : is_open(sigma, a)
    /\ OpenNodes(tree, sigma) # {} => is_open(sigma, 1)

\* C21: a chain of three Open nodes from the root downwards, next to a
\* sibling that is already Closed
C21_Witness ==
    \E n \in OpenNodes(tree, sigma) :
        /\ ~is_root(tree, n)
        /\ ~is_root(tree, tree.parent[n])
        /\ is_open(sigma, tree.parent[n])
        /\ is_open(sigma, 1)
        /\ \E m \in Nodes(tree) : m # n /\ is_closed(sigma, m)

\* the children of node n of pt that are Open in state
OpenChildren(pt, state, n) ==
    {pt.children[n][i] : i \in DOMAIN pt.children[n]} \cap OpenNodes(pt, state)

\* C22: in every tree state reached from all-Future by the transitions of
\* get_valid_transitions, every Xor node has at most one Open child, also a
\* Xor node below a Loop whose children are re-armed
C22_XorHasAtMostOneOpenChild ==
    \A n \in Nodes(tree) :
        is_xor(tree, n) => Cardinality(OpenChildren(tree, sigma, n)) <= 1

\* C22: in a nested Loop tree the Xor node that is the redo child of the
\* Loop has exactly one Open child while the do child of the Loop is Future
\* again: the do child has been re-armed during the turn of the Xor
C22_Witness ==
    /\ tree \in NestedLoopTrees
    /\ \E n \in Nodes(tree) :
          /\ is_xor(tree, n)
          /\ is_redo_child(tree, n)
          /\ is_open(sigma, n)
          /\ Cardinality(OpenChildren(tree, sigma, n)) = 1
          /\ is_future(sigma, tree.children[tree.parent[n]][1])

\* the transitions on the chain of parents of a search state, the state's own
\* transition first
ChainTransitions(st) ==
    SelectSeq(SearchStateIterator(<<st>>), LAMBDA x : x.transition # <<>>)

\* C23: for every search state of the search, dist and depth are both the
\* number of transitions on its chain of parents back to the initial state of
\* its direction, every transition counting 1 whether it executes a leaf or
\* not; the returned cost is the length of the returned firing sequence
C23_DistIsDepthIsChainLength ==
    /\ \A st \in KnownSearchStates :
          /\ st.dist = st.depth
          /\ st.depth = Len(ChainTransitions(st))
          /\ st.depth = Len(SearchStateIterator(<<st>>)) - 1
          /\ st.parent = <<>> => (st.dist = 0 /\ st.transition = <<>>)
          /\ st.parent # <<>> =>
                /\ st.transition # <<>>
                /\ st.dist = st.parent[1].dist + 1
                /\ st.parent[1].from_start = st.from_start
    /\ Returned =>
          /\ result[1].cost = Len(result[1].firing_sequence)
          /\ result[1].cost =
                meeting_info.start_node[1].depth + meeting_info.end_node[1].depth

\* C23: a returned result of at least seven transitions, some of which
\* execute a leaf and some of which do not
C23_Witness ==
    /\ Returned
    /\ result[1].cost >= 7
    /\ Len(result[1].leaf_sequence) >= 2
    /\ Len(result[1].leaf_sequence) < Len(result[1].firing_sequence)

\* C24: once start_node is set the search is at the loop test with a heap
\* that is not empty or has returned, never raised; the only step it then
\* takes is the return, which expands nothing and builds the result from the
\* recorded start_node and end_node; and the return does come
C24_MeetingIsNeverLost ==
    /\ [](meeting_info.start_node # <<>> =>
             /\ pc \in {"loop", "returned"}
             /\ pc = "loop" => LoopTest
             /\ Returned =>
                   result = <<construct_search_result(meeting_info.start_node,
                                                      meeting_info.end_node,
                                                      visited_state)>>)
    /\ [][meeting_info.start_node # <<>> =>
             /\ pc' = "returned"
             /\ UNCHANGED <<open_set_forward, open_set_backward,
                            distances_forward, distances_backward,
                            meeting_info, visited_state>>]_vars
    /\ (meeting_info.start_node # <<>>) ~> Returned

\* C24: the search has returned the meeting recorded by the second priming
\* expansion, no expansion made in the loop
C24_Witness ==
    /\ Returned
    /\ meeting_info.start_node # <<>>
    /\ visited_state = 2
    /\ result[1].cost =
          meeting_info.start_node[1].dist + meeting_info.end_node[1].dist

====
